---- MODULE Spec2Model ----
(***************************************************************************)
(* Model of scilpy's asymmetric (hemisphere-aware) gaussian filtering of   *)
(* SH fields (scilpy/denoise/asym_enhancement.py) and of the command line  *)
(* of scripts/scil_resample_tractogram.py.                                 *)
(*                                                                         *)
(* Numbers are exact rationals <<num, den>> in lowest terms, den > 0.      *)
(* <<0, 0>> stands for the floating point NaN (the only non-finite value   *)
(* the weight construction can leave in an array cell).                    *)
(*                                                                         *)
(* To keep every weight rational the inputs are drawn from:                *)
(*   sigma         = sign / sqrt(2 ln base), sign in {-1,0,1}, base >= 2,  *)
(*                   so that exp(-n/(2 sigma^2)) = base^(-n) when sign # 0 *)
(*   dot_sharpness = 2 * half, half an integer, so that d ** dot_sharpness *)
(*                   = (d^2) ^ half and d^2 is rational                    *)
(*   sphere        = unit vectors with rational coordinates <<a,b,c,m>>,   *)
(*                   meaning (a,b,c)/m with a^2+b^2+c^2 = m^2              *)
(***************************************************************************)
EXTENDS Integers, Sequences, FiniteSets, TLC

(* ------------------------------ bounds --------------------------------- *)

\* sigma = sign / sqrt(2 ln base) with base in 2..MaxSigmaBase
MaxSigmaBase == 3

\* dot_sharpness = 2 * half with half in -1..MaxHalfSharp
MaxHalfSharp == 1

\* number of voxels of the largest grid
MaxVoxels == 2

\* the non-zero SH coefficients of an input field share one value in
\* 1..MaxCoef
MaxCoef == 1

\* an input field has at most MaxNonZero non-zero SH coefficients
MaxNonZero == 2

\* streamline counts of the resampling script are in 0..MaxStreamlines
MaxStreamlines == 2

(* --------------------------- exact rationals --------------------------- *)

RECURSIVE Gcd(_, _)
Gcd(a, b) == IF b = 0 THEN a ELSE Gcd(b, a % b)

Abs(a) == IF a < 0 THEN -a ELSE a

NaN == <<0, 0>>

IsNaN(r) == r[2] = 0

\* n/d in lowest terms with a positive denominator (d # 0)
Rat(n, d) ==
    LET g == Gcd(Abs(n), Abs(d))
        s == IF d < 0 THEN -1 ELSE 1
    IN  <<(s * n) \div g, (s * d) \div g>>

RZero == <<0, 1>>

ROne == <<1, 1>>

RInt(n) == <<n, 1>>

\* (the operands are in lowest terms; the common denominator is their lcm,
\* and products are reduced crosswise first, to keep the integers small)
RAdd(a, b) ==
    IF IsNaN(a) \/ IsNaN(b) THEN NaN
    ELSE IF a[1] = 0 THEN b
    ELSE IF b[1] = 0 THEN a
    ELSE LET g == Gcd(a[2], b[2])
         IN  Rat(a[1] * (b[2] \div g) + b[1] * (a[2] \div g),
                 (a[2] \div g) * b[2])

RMul(a, b) ==
    IF IsNaN(a) \/ IsNaN(b) THEN NaN
    ELSE IF a[1] = 0 \/ b[1] = 0 THEN <<0, 1>>
    ELSE IF a = <<1, 1>> THEN b
    ELSE IF b = <<1, 1>> THEN a
    ELSE LET g1 == Gcd(Abs(a[1]), b[2])
             g2 == Gcd(Abs(b[1]), a[2])
         IN  Rat((a[1] \div g1) * (b[1] \div g2),
                 (a[2] \div g2) * (b[2] \div g1))

\* floating point division: x/0 is not an error; 0/0 is NaN.  A non-zero
\* value is never divided by zero in the modelled code paths.
RDiv(a, b) ==
    IF IsNaN(a) \/ IsNaN(b) \/ b[1] = 0 THEN NaN
    ELSE RMul(a, Rat(b[2], b[1]))

RPos(a) == ~IsNaN(a) /\ a[1] > 0

RNonNeg(a) == ~IsNaN(a) /\ a[1] >= 0

RECURSIVE RPowNat(_, _)
RPowNat(a, n) == IF n = 0 THEN ROne ELSE RMul(a, RPowNat(a, n - 1))

\* a ** e for a > 0 and an integer exponent e
RPow(a, e) == IF e >= 0 THEN RPowNat(a, e) ELSE RDiv(ROne, RPowNat(a, -e))

\* sum of f[1] .. f[n]
RECURSIVE RSumTo(_, _)
RSumTo(f, n) == IF n = 0 THEN RZero ELSE RAdd(RSumTo(f, n - 1), f[n])

(* ------------------------ the 3x3x3 neighbourhood ---------------------- *)

\* the cells of a 3x3x3 array, indexed as numpy does: <<x, y, z>> in 0..2
Cells == (0..2) \X (0..2) \X (0..2)

Centre == <<1, 1, 1>>

\* the sum of the 27 entries of a 3x3x3 array (sum() over the flattened array)
RSum3(a, b, c) == RAdd(RAdd(a, b), c)

RSumCells(f) ==
    LET line(x, y) == RSum3(f[<<x, y, 0>>], f[<<x, y, 1>>], f[<<x, y, 2>>])
        plane(x) == RSum3(line(x, 0), line(x, 1), line(x, 2))
    IN  RSum3(plane(0), plane(1), plane(2))

\* directions[x, y, z, :] before normalisation: the integer offset
Offset(c) == <<c[1] - 1, c[2] - 1, c[3] - 1>>

\* dir_norm ** 2
Norm2(c) ==
    LET o == Offset(c) IN o[1] * o[1] + o[2] * o[2] + o[3] * o[3]

(* ------------------------------ spheres -------------------------------- *)

\* The sphere provider (dipy's get_sphere): named discretisations of the
\* unit sphere; a vertex <<a, b, c, m>> is the unit vector (a, b, c)/m.
get_sphere(sphere_str) ==
    CASE sphere_str = "axis_x"  -> << <<1, 0, 0, 1>>, <<-1, 0, 0, 1>> >>
      [] sphere_str = "axes_yz" -> << <<0, -1, 0, 1>>, <<0, 0, 1, 1>> >>
      [] sphere_str = "oblique" -> << <<-3, -4, 0, 5>>, <<1, 2, 2, 3>> >>

SphereNames == {"axis_x", "axes_yz", "oblique"}

(* ------------------------------ _get_weights --------------------------- *)

\* g_weights = exp(-dir_norm**2 / (2 * sigma**2)) at one cell.
\* sigma = 0: the quotient is 0/0 = NaN at the centre and +inf elsewhere,
\* and exp(-inf) = 0.
GWeight(sigma, c) ==
    IF sigma.sign = 0
    THEN IF Norm2(c) = 0 THEN NaN ELSE RZero
    ELSE Rat(1, RPowNat(RInt(sigma.base), Norm2(c))[1])

\* the sign of np.dot(directions, sphere.vertices.T) at one (cell, vertex):
\* the normalised offset has the sign of the integer offset
DotNum(c, v) ==
    LET o == Offset(c) IN o[1] * v[1] + o[2] * v[2] + o[3] * v[3]

\* the square of np.dot(directions, sphere.vertices.T) at a non-centre cell
Dot2(c, v) == Rat(DotNum(c, v) * DotNum(c, v), Norm2(c) * v[4] * v[4])

\* (mutant) the sign of the dot product is not tested
DWeightMutNoHemisphere(dot_sharpness, c, v) ==
    IF DotNum(c, v) # 0 THEN RPow(Dot2(c, v), dot_sharpness \div 2) ELSE RZero

\* d_weights = np.where(d_weights > 0.0, d_weights**dot_sharpness, 0.0);
\* dot_sharpness is even, d ** dot_sharpness = (d^2) ** (dot_sharpness / 2)
DWeight(dot_sharpness, c, v) ==
    IF DotNum(c, v) > 0 THEN RPow(Dot2(c, v), dot_sharpness \div 2) ELSE RZero

\* weights = d_weights * g_weights; weights[1, 1, 1, :] = 1.0
RawWeight(sigma, dot_sharpness, c, v) ==
    IF c = Centre THEN ROne
    ELSE RMul(DWeight(dot_sharpness, c, v), GWeight(sigma, c))

\* weights.reshape((-1, weights.shape[-1])).sum(axis=0) for direction n
WeightSum(raw, n) == RSumCells([c \in Cells |-> raw[c][n]])

\* (mutant) the weights are divided by the sum over all directions
NormaliseMutGlobalSum(raw, N) ==
    LET total == RSumTo([n \in 1..N |-> WeightSum(raw, n)], N)
    IN  [c \in Cells |-> [n \in 1..N |-> RDiv(raw[c][n], total)]]

\* weights /= weights.reshape((-1, weights.shape[-1])).sum(axis=0)
Normalise(raw, N) ==
    LET sums == [n \in 1..N |-> WeightSum(raw, n)] \o <<>>
    IN  [c \in Cells |-> [n \in 1..N |-> RDiv(raw[c][n], sums[n])]]

\* _get_weights(sphere, dot_sharpness, sigma): the 3x3x3xN kernel
GetWeights(sphere, dot_sharpness, sigma) ==
    LET raw == [c \in Cells |->
                  [n \in 1..Len(sphere) |->
                      RawWeight(sigma, dot_sharpness, c, sphere[n])]]
    IN  Normalise(raw, Len(sphere))

(* ------------------------------ voxel grids ---------------------------- *)

\* the grids (x, y, z) of at most MaxVoxels voxels
Shapes ==
    {s \in (1..MaxVoxels) \X (1..MaxVoxels) \X (1..MaxVoxels) :
        s[1] * s[2] * s[3] <= MaxVoxels}

NbVoxels(shape) == shape[1] * shape[2] * shape[3]

Voxels(shape) ==
    (0..(shape[1] - 1)) \X (0..(shape[2] - 1)) \X (0..(shape[3] - 1))

\* the coordinates of np.pad(a, ((1, 1), (1, 1), (1, 1)))
PadCoords(shape) == (0..(shape[1] + 1)) \X (0..(shape[2] + 1)) \X (0..(shape[3] + 1))

\* np.pad(a, ((1, 1), (1, 1), (1, 1))): one layer of `zero` around a
Pad(a, shape, zero) ==
    [p \in PadCoords(shape) |->
        LET q == <<p[1] - 1, p[2] - 1, p[3] - 1>>
        IN  IF q \in Voxels(shape) THEN a[q] ELSE zero]

\* the voxel (ii, jj, kk) reached after n iterations of the three nested
\* range() loops (kk runs fastest)
VoxelAt(shape, n) ==
    <<n \div (shape[2] * shape[3]), (n \div shape[3]) % shape[2], n % shape[3]>>

\* a[ii:ii+3, jj:jj+3, kk:kk+3] of a padded array
Window(a, v) == [c \in Cells |-> a[<<v[1] + c[1], v[2] + c[2], v[3] + c[3]>>]]

(* --------------------------- basis projection -------------------------- *)

\* The coefficients of a voxel: one of even order (antipodally symmetric)
\* and one of odd order (antipodally antisymmetric).
Coefs == {"even", "odd"}

\* -sphere.vertices
Negated(sphere) ==
    [n \in 1..Len(sphere) |->
        <<-sphere[n][1], -sphere[n][2], -sphere[n][3], sphere[n][4]>>]

\* The basis builder (dipy's sh_to_sf_matrix) for the two coefficients:
\* the even basis function is constant, the odd one is linear in the vertex.
sh_to_sf_matrix(sphere) ==
    [k \in Coefs |->
        [n \in 1..Len(sphere) |->
            IF k = "even" THEN ROne
            ELSE Rat(sphere[n][1] + sphere[n][2] + sphere[n][3], sphere[n][4])]]

\* np.dot(in_sh, B[:, dir_i]): the field of one direction
DirEval(in_sh, B, n, shape) ==
    [v \in Voxels(shape) |->
        RAdd(RMul(RInt(in_sh[v]["even"]), B["even"][n]),
             RMul(RInt(in_sh[v]["odd"]), B["odd"][n]))]

(* ----------------------------- unmasked path --------------------------- *)

\* scipy.ndimage.correlate(input, w, mode='constant') with a 3x3x3 w:
\* output[p] = sum over cells c of w[c] * input[p + c - 1], 0 outside
Correlate(input, w, shape) ==
    [p \in Voxels(shape) |->
        RSumCells([c \in Cells |->
            LET q == <<p[1] + c[1] - 1, p[2] + c[2] - 1, p[3] + c[3] - 1>>
            IN  IF q \in Voxels(shape) THEN RMul(w[c], input[q]) ELSE RZero])]

\* w_filter = weights[..., dir_i]
Slice(weights, n) == [c \in Cells |-> weights[c][n]]

\* (mutant) the centre is zeroed for every direction
ZeroCentreMutAllDirs(weights, n) ==
    [c \in Cells |->
        [m \in DOMAIN weights[c] |-> IF c = Centre THEN RZero ELSE weights[c][m]]]

\* w_filter[1, 1, 1] = 0.0 where w_filter is a view of weights
ZeroCentre(weights, n) == [weights EXCEPT ![Centre][n] = RZero]

\* lines 73-78: the centre from curr_dir_eval with the centre weight, then
\* the neighbours from opposite_dir_eval with the centre-zeroed filter
UnmaskedField(weights, n, curr_dir_eval, opposite_dir_eval, shape) ==
    LET centre == [p \in Voxels(shape) |->
                      RMul(weights[Centre][n], curr_dir_eval[p])]
        neigh  == Correlate(opposite_dir_eval,
                            Slice(ZeroCentre(weights, n), n), shape)
    IN  [p \in Voxels(shape) |-> RAdd(centre[p], neigh[p])]

(* ------------------------------ masked path ---------------------------- *)

\* win_arr[1, 1, 1] = curr_dir[ii+1, jj+1, kk+1]: win_arr is a view of the
\* padded opposite_dir, so the assignment writes into opposite_dir
WriteCentre(opposite_dir, curr_dir, v) ==
    LET p == <<v[1] + 1, v[2] + 1, v[3] + 1>>
    IN  [opposite_dir EXCEPT ![p] = curr_dir[p]]

\* (mutant) the kernel is not multiplied by the mask window
MaskedWeightsMutNoMask(w_filter, win_mask) ==
    LET any == \E c \in Cells : w_filter[c] # RZero
        total == RSumCells(w_filter)
    IN  IF any THEN [c \in Cells |-> RDiv(w_filter[c], total)] ELSE w_filter

\* curr_w = w_filter * win_mask; if curr_w.any(): curr_w /= curr_w.sum()
MaskedWeights(w_filter, win_mask) ==
    LET w == [c \in Cells |-> RMul(w_filter[c], RInt(win_mask[c]))]
        any == \E c \in Cells : w[c] # RZero
        total == RSumCells(w)
    IN  IF any THEN [c \in Cells |-> RDiv(w[c], total)] ELSE w

\* (mutant) the output is written whatever the mask of the centre
NaiveOutMutNoMaskCheck(out, v, win_arr, curr_w, win_mask) ==
    [out EXCEPT ![v] = RSumCells([c \in Cells |-> RMul(win_arr[c], curr_w[c])])]

\* if win_mask[1, 1, 1] > 0.: out[ii, jj, kk] = (win_arr * curr_w).sum()
NaiveOut(out, v, win_arr, curr_w, win_mask) ==
    IF win_mask[Centre] > 0
    THEN [out EXCEPT ![v] = RSumCells([c \in Cells |-> RMul(win_arr[c], curr_w[c])])]
    ELSE out

(* ------------------------------- the state ----------------------------- *)

VARIABLES
    pc,             \* position in local_asym_gaussian_filtering
    sigma,          \* argument: [sign, base], sigma = sign / sqrt(2 ln base)
    dot_sharpness,  \* argument (an even integer)
    sphere_str,     \* argument
    shape,          \* in_sh.shape[:-1]
    in_sh,          \* argument: voxel -> coefficient -> integer
    mask,           \* argument: NoMask, or voxel -> 0 (False) / 1 (True)
    weights,        \* the kernel _get_weights returned; w_filter is a view of it
    dir_i,          \* loop variable of line 67, counted from 1
    mean_sf,        \* direction -> voxel -> filtered value
    curr_dir,       \* _apply_naive_correlation: padded curr_dir
    opposite_dir,   \* _apply_naive_correlation: padded opposite_dir
    pad_mask,       \* _apply_naive_correlation: padded mask
    out,            \* _apply_naive_correlation: out
    nb_done,        \* _apply_naive_correlation: iterations of the loops done
    win_arr,        \* _apply_naive_correlation: win_arr of the last iteration
    win_mask,       \* _apply_naive_correlation: win_mask of the last iteration
    curr_w,         \* _apply_naive_correlation: curr_w of the last iteration
    script_pc,      \* position in scil_resample_tractogram.py main()
    args,           \* the command line
    in_exists,      \* the input tractogram file exists
    out_exists,     \* the output tractogram file exists
    nb_in_file,     \* number of streamlines of the input tractogram
    branch          \* the resampling main() took

filterVars ==
    <<pc, sigma, dot_sharpness, sphere_str, shape, in_sh, mask, weights, dir_i,
      mean_sf, curr_dir, opposite_dir, pad_mask, out, nb_done, win_arr,
      win_mask, curr_w>>

scriptVars == <<script_pc, args, in_exists, out_exists, nb_in_file, branch>>

vars == <<filterVars, scriptVars>>

\* mask=None, and the value of a local that is not bound
NoMask == <<>>

Unset == <<>>

(* --------------------- local_asym_gaussian_filtering ------------------- *)

sphere == get_sphere(sphere_str)

nb_dir == Len(sphere)

\* B and neg_B of lines 57-64
B == sh_to_sf_matrix(sphere)

neg_B == sh_to_sf_matrix(Negated(sphere))

\* curr_dir_eval and opposite_dir_eval of lines 69-70 for direction n
curr_dir_eval(n) == DirEval(in_sh, B, n, shape)

opposite_dir_eval(n) == DirEval(in_sh, neg_B, n, shape)

\* the input fields: SH coefficients 0 but at most MaxNonZero, which share
\* a value in 1..MaxCoef
Fields(sh) ==
    {[v \in Voxels(sh) |-> [k \in Coefs |-> a * f[v][k]]] :
        a \in 1..MaxCoef,
        f \in {g \in [Voxels(sh) -> [Coefs -> {0, 1}]] :
                  Cardinality({vk \in Voxels(sh) \X Coefs :
                                  g[vk[1]][vk[2]] # 0}) <= MaxNonZero}}

Masks(sh) == {NoMask} \cup [Voxels(sh) -> {0, 1}]

InitLocals ==
    /\ weights = Unset
    /\ dir_i = 0
    /\ mean_sf = Unset
    /\ curr_dir = Unset
    /\ opposite_dir = Unset
    /\ pad_mask = Unset
    /\ out = Unset
    /\ nb_done = 0
    /\ win_arr = Unset
    /\ win_mask = Unset
    /\ curr_w = Unset

ScriptIdle ==
    /\ script_pc = "idle"
    /\ args = Unset
    /\ in_exists = FALSE
    /\ out_exists = FALSE
    /\ nb_in_file = 0
    /\ branch = "none"

\* lines 45-64: the sphere, the kernel, the zeroed mean_sf, B and neg_B
BuildWeights ==
    /\ pc = "call"
    /\ weights' = GetWeights(sphere, dot_sharpness, sigma)
    /\ mean_sf' = [n \in 1..nb_dir |-> [v \in Voxels(shape) |-> RZero]]
    /\ dir_i' = 1
    /\ pc' = "dir_loop"
    /\ UNCHANGED <<sigma, dot_sharpness, sphere_str, shape, in_sh, mask,
                   curr_dir, opposite_dir, pad_mask, out, nb_done, win_arr,
                   win_mask, curr_w, scriptVars>>

\* lines 67-78: one iteration of the direction loop when mask is None
FilterUnmasked ==
    /\ pc = "dir_loop"
    /\ dir_i <= nb_dir
    /\ mask = NoMask
    /\ mean_sf' = [mean_sf EXCEPT ![dir_i] =
                      UnmaskedField(weights, dir_i, curr_dir_eval(dir_i),
                                    opposite_dir_eval(dir_i), shape)]
    /\ weights' = ZeroCentre(weights, dir_i)
    /\ dir_i' = dir_i + 1
    /\ UNCHANGED <<pc, sigma, dot_sharpness, sphere_str, shape, in_sh, mask,
                   curr_dir, opposite_dir, pad_mask, out, nb_done, win_arr,
                   win_mask, curr_w, scriptVars>>

\* lines 67-70, 80 and 139-143: _apply_naive_correlation is entered
EnterNaive ==
    /\ pc = "dir_loop"
    /\ dir_i <= nb_dir
    /\ mask # NoMask
    /\ out' = [v \in Voxels(shape) |-> RZero]
    /\ curr_dir' = Pad(curr_dir_eval(dir_i), shape, RZero)
    /\ opposite_dir' = Pad(opposite_dir_eval(dir_i), shape, RZero)
    /\ pad_mask' = Pad(mask, shape, 0)
    /\ nb_done' = 0
    /\ pc' = "voxel_loop"
    /\ UNCHANGED <<sigma, dot_sharpness, sphere_str, shape, in_sh, mask,
                   weights, dir_i, mean_sf, win_arr, win_mask, curr_w,
                   scriptVars>>

\* lines 144-157: one iteration of the voxel loops
VoxelStep ==
    /\ pc = "voxel_loop"
    /\ nb_done < NbVoxels(shape)
    /\ LET v == VoxelAt(shape, nb_done)
       IN  /\ opposite_dir' = WriteCentre(opposite_dir, curr_dir, v)
           /\ win_arr' = Window(opposite_dir', v)
           /\ win_mask' = Window(pad_mask, v)
           /\ curr_w' = MaskedWeights(Slice(weights, dir_i), win_mask')
           /\ out' = NaiveOut(out, v, win_arr', curr_w', win_mask')
    /\ nb_done' = nb_done + 1
    /\ UNCHANGED <<pc, sigma, dot_sharpness, sphere_str, shape, in_sh, mask,
                   weights, dir_i, mean_sf, curr_dir, pad_mask, scriptVars>>

\* lines 158 and 80: out is returned and stored in mean_sf[..., dir_i]
ReturnNaive ==
    /\ pc = "voxel_loop"
    /\ nb_done = NbVoxels(shape)
    /\ mean_sf' = [mean_sf EXCEPT ![dir_i] = out]
    /\ dir_i' = dir_i + 1
    /\ pc' = "dir_loop"
    /\ curr_dir' = Unset
    /\ opposite_dir' = Unset
    /\ pad_mask' = Unset
    /\ out' = Unset
    /\ nb_done' = 0
    /\ win_arr' = Unset
    /\ win_mask' = Unset
    /\ curr_w' = Unset
    /\ UNCHANGED <<sigma, dot_sharpness, sphere_str, shape, in_sh, mask,
                   weights, scriptVars>>

\* lines 84-89: the loop is over; out_sh (mean_sf projected back with the
\* B_inv of the basis builder) is returned
Reconstruct ==
    /\ pc = "dir_loop"
    /\ dir_i > nb_dir
    /\ pc' = "returned"
    /\ UNCHANGED <<sigma, dot_sharpness, sphere_str, shape, in_sh, mask,
                   weights, dir_i, mean_sf, curr_dir, opposite_dir, pad_mask,
                   out, nb_done, win_arr, win_mask, curr_w, scriptVars>>

NextFilter ==
    \/ BuildWeights
    \/ FilterUnmasked
    \/ EnterNaive
    \/ VoxelStep
    \/ ReturnNaive
    \/ Reconstruct

\* a call of the filter on any grid, with sigma = 1 / sqrt(2 ln 2) and
\* dot_sharpness = 2
Init ==
    /\ pc = "call"
    /\ sigma = [sign |-> 1, base |-> 2]
    /\ dot_sharpness = 2
    /\ sphere_str \in SphereNames
    /\ shape \in Shapes
    /\ in_sh \in Fields(shape)
    /\ mask \in Masks(shape)
    /\ InitLocals
    /\ ScriptIdle

Spec == Init /\ [][NextFilter]_vars

\* a call of the filter on one voxel, with any configuration
InitWeights ==
    /\ pc = "call"
    /\ sigma \in [sign : {-1, 0, 1}, base : 2..MaxSigmaBase]
    /\ dot_sharpness \in {2 * h : h \in (-1)..MaxHalfSharp}
    /\ sphere_str \in SphereNames
    /\ shape = <<1, 1, 1>>
    /\ in_sh \in Fields(shape)
    /\ mask \in Masks(shape)
    /\ InitLocals
    /\ ScriptIdle

SpecWeights == InitWeights /\ [][NextFilter]_vars

(* ------------------- scil_resample_tractogram.py main() ---------------- *)

\* an optional command line value: <<>> when the option is absent (None)
None == <<>>

Given(x) == <<x>>

\* the standard deviations tried on the command line
StdValues == {-1, 0, 1}

\* the command lines: three positionals and the options of lines 47-72
CommandLines ==
    [nb_streamlines : 0..MaxStreamlines,
     point_wise_std : {None} \cup {Given(x) : x \in StdValues},
     streamline_wise_std : {None} \cup {Given(x) : x \in StdValues},
     gaussian : {None, Given(5)},
     spline : {None, Given(<<5, 10>>)},
     keep_invalid_streamlines : BOOLEAN,
     overwrite : BOOLEAN]

\* parser.parse_args() with the two groups of lines 47-65: std_group is
\* required and mutually exclusive, sub_p is mutually exclusive
ParseArgsOk(a) ==
    /\ ~(a.point_wise_std # None /\ a.streamline_wise_std # None)
    /\ (a.point_wise_std # None \/ a.streamline_wise_std # None)
    /\ ~(a.gaussian # None /\ a.spline # None)

\* lines 84-87: not (STD needs to be above 0)
StdOk(a) ==
    ~(\/ (a.point_wise_std # None /\ a.point_wise_std[1] <= 0)
      \/ (a.streamline_wise_std # None /\ a.streamline_wise_std[1] <= 0))

\* lines 81-82: the command line is parsed; argparse exits on a usage error
ParseArgs ==
    /\ script_pc = "start"
    /\ script_pc' = IF ParseArgsOk(args) THEN "parsed" ELSE "error"
    /\ UNCHANGED <<args, in_exists, out_exists, nb_in_file, branch, filterVars>>

\* lines 84-90: the STD check, assert_inputs_exist, assert_outputs_exist
CheckArgs ==
    /\ script_pc = "parsed"
    /\ script_pc' = IF /\ StdOk(args)
                       /\ in_exists
                       /\ (~out_exists \/ args.overwrite)
                    THEN "checked" ELSE "error"
    /\ UNCHANGED <<args, in_exists, out_exists, nb_in_file, branch, filterVars>>

\* lines 97-106: the tractogram is loaded and resampled
Resample ==
    /\ script_pc = "checked"
    /\ branch' = IF args.nb_streamlines > nb_in_file THEN "upsample"
                 ELSE IF args.nb_streamlines < nb_in_file THEN "downsample"
                 ELSE "none"
    /\ script_pc' = "resampled"
    /\ UNCHANGED <<args, in_exists, out_exists, nb_in_file, filterVars>>

\* lines 107-114: the streamlines are compressed and saved
Save ==
    /\ script_pc = "resampled"
    /\ out_exists' = TRUE
    /\ script_pc' = "done"
    /\ UNCHANGED <<args, in_exists, nb_in_file, branch, filterVars>>

NextScript ==
    \/ ParseArgs
    \/ CheckArgs
    \/ Resample
    \/ Save

FilterIdle ==
    /\ pc = "idle"
    /\ sigma = [sign |-> 1, base |-> 2]
    /\ dot_sharpness = 2
    /\ sphere_str = "axis_x"
    /\ shape = <<1, 1, 1>>
    /\ in_sh = Unset
    /\ mask = NoMask
    /\ InitLocals

InitScript ==
    /\ script_pc = "start"
    /\ args \in CommandLines
    /\ in_exists \in BOOLEAN
    /\ out_exists \in BOOLEAN
    /\ nb_in_file \in 0..MaxStreamlines
    /\ branch = "none"
    /\ FilterIdle

SpecScript == InitScript /\ [][NextScript]_vars

(* -------------------------------- claims ------------------------------ *)

ValidConfig == sigma.sign > 0 /\ dot_sharpness >= 0

\* the kernel slice of direction n is still as _get_weights returned it
\* (the unmasked path zeroes the centre of the slices it has used)
AsReturned(n) == weights # Unset /\ (mask # NoMask \/ n >= dir_i)

\* the value of a field at voxel p + offset(c), 0 outside the grid
At(field, p, c) ==
    LET q == <<p[1] + c[1] - 1, p[2] + c[2] - 1, p[3] + c[3] - 1>>
    IN  IF q \in Voxels(shape) THEN field[q] ELSE RZero

AllTrue == mask # NoMask /\ \A v \in Voxels(shape) : mask[v] = 1

\* the voxel the last iteration of the voxel loops processed
LastVoxel == VoxelAt(shape, nb_done - 1)

InVoxelLoop == pc = "voxel_loop" /\ nb_done > 0

\* C1: with a mask that is true at every voxel the filtered value of every
\* voxel and direction equals the one the unmasked path computes from the
\* same arguments.
C1_AllTrueMaskEqualsUnmasked ==
    (pc = "returned" /\ AllTrue) =>
        \A n \in 1..nb_dir :
            mean_sf[n] = UnmaskedField(GetWeights(sphere, dot_sharpness, sigma), n,
                                       curr_dir_eval(n), opposite_dir_eval(n),
                                       shape)

\* C2: in the masked path the filtered value of every direction is exactly
\* 0 at every voxel whose mask is false, whatever the voxel and its
\* neighbours hold.
C2_MaskedOutIsZero ==
    (mask # NoMask /\ mean_sf # Unset) =>
        \A v \in Voxels(shape) :
            mask[v] <= 0 =>
                /\ \A n \in 1..nb_dir : mean_sf[n][v] = RZero
                /\ out # Unset => out[v] = RZero

\* C2 witness: the call returned with a masked-out voxel whose own sample is
\* not 0 and which has a valid neighbour with a non-zero antipodal sample
C2_Witness ==
    /\ pc = "returned"
    /\ mask # NoMask
    /\ \E v \in Voxels(shape), n \in 1..nb_dir, c \in Cells \ {Centre} :
          /\ mask[v] = 0
          /\ curr_dir_eval(n)[v] # RZero
          /\ At([q \in Voxels(shape) |-> RInt(mask[q])], v, c) = ROne
          /\ At(opposite_dir_eval(n), v, c) # RZero
          /\ mean_sf[n][v] = RZero

\* C3: for a valid configuration the kernel _get_weights returns is
\* non-negative, the 27 weights of each direction sum to 1, and the sum the
\* weights are divided by is at least the centre's raw weight 1.
C3_KernelNormalised ==
    ValidConfig =>
        \A n \in 1..nb_dir :
            AsReturned(n) =>
                /\ \A c \in Cells : RNonNeg(weights[c][n])
                /\ RSumCells(Slice(weights, n)) = ROne
                /\ LET total == RSumCells([c \in Cells |->
                                     RawWeight(sigma, dot_sharpness, c, sphere[n])])
                   IN  RPos(total) /\ total[1] >= total[2]

\* C3 witness: a kernel was returned for a valid configuration, with a
\* direction whose weight is spread over the centre and some neighbours
C3_Witness ==
    /\ ValidConfig
    /\ pc = "dir_loop"
    /\ dir_i = 1
    /\ \E n \in 1..nb_dir, c \in Cells \ {Centre} :
          RPos(weights[c][n]) /\ weights[c][n] # weights[Centre][n]

\* C4: a call with sigma <= 0 or dot_sharpness < 0 is rejected before a
\* kernel is built or a voxel filtered, and returns no output field.
C4_InvalidConfigRejected ==
    ~ValidConfig => (weights = Unset /\ mean_sf = Unset /\ pc # "returned")

\* C6: in the masked path the window used for a voxel holds curr at its
\* centre and, at the 26 other cells, the antipodal sample of the
\* neighbour (0 outside the grid), whatever was processed before.
C6_WindowFromOpp ==
    InVoxelLoop =>
        \A c \in Cells :
            win_arr[c] = IF c = Centre THEN curr_dir_eval(dir_i)[LastVoxel]
                         ELSE At(opposite_dir_eval(dir_i), LastVoxel, c)

\* C7: processing a voxel in the masked path writes only that voxel's
\* output and leaves the padded curr, opp and mask arrays unchanged.
C7_VoxelsIndependent ==
    [][(pc = "voxel_loop" /\ pc' = "voxel_loop") =>
          /\ curr_dir' = curr_dir
          /\ opposite_dir' = opposite_dir
          /\ pad_mask' = pad_mask
          /\ \A v \in Voxels(shape) :
                v # VoxelAt(shape, nb_done) => out'[v] = out[v]]_vars

\* C8: for a valid configuration and every direction, the weight of a
\* non-centre offset is 0 when its dot product with the direction is <= 0
\* and > 0 when it is > 0; with dot_sharpness = 0 the weight of a
\* positive-dot offset is the gaussian term alone (relative to the centre,
\* whose raw weight is 1); the centre's weight is > 0.
C8_HemisphereRestriction ==
    ValidConfig =>
        \A n \in 1..nb_dir :
            AsReturned(n) =>
                /\ RPos(weights[Centre][n])
                /\ \A c \in Cells \ {Centre} :
                      /\ DotNum(c, sphere[n]) <= 0 => weights[c][n] = RZero
                      /\ DotNum(c, sphere[n]) > 0 => RPos(weights[c][n])
                      /\ (DotNum(c, sphere[n]) > 0 /\ dot_sharpness = 0) =>
                            weights[c][n] =
                                RMul(GWeight(sigma, c), weights[Centre][n])

\* C8 witness: a returned kernel of a valid configuration with
\* dot_sharpness = 0 that has zero and positive neighbour weights
C8_Witness ==
    /\ ValidConfig
    /\ dot_sharpness = 0
    /\ pc = "dir_loop"
    /\ dir_i = 1
    /\ \E n \in 1..nb_dir, c, d \in Cells \ {Centre} :
          /\ DotNum(c, sphere[n]) < 0
          /\ weights[c][n] = RZero
          /\ DotNum(d, sphere[n]) > 0
          /\ RPos(weights[d][n])

\* C9: in the unmasked path the filtered value of direction n at voxel p
\* is K[centre, n] * curr[p] plus the sum over the 26 other offsets o of
\* K[o, n] * opp[p + o] (0 outside the grid), K the kernel as returned;
\* the slices of the directions not yet filtered are as returned.
C9_UnmaskedFormula ==
    (mask = NoMask /\ weights # Unset) =>
        LET K == GetWeights(sphere, dot_sharpness, sigma)
        IN  \A n \in 1..nb_dir :
                IF n < dir_i
                THEN \A p \in Voxels(shape) :
                        mean_sf[n][p] =
                            RAdd(RMul(K[Centre][n], curr_dir_eval(n)[p]),
                                 RSumCells([c \in Cells |->
                                     IF c = Centre THEN RZero
                                     ELSE RMul(K[c][n],
                                               At(opposite_dir_eval(n), p, c))]))
                ELSE \A c \in Cells : weights[c][n] = K[c][n]

\* C9 witness: the unmasked call returned and some voxel got a non-zero
\* contribution from itself and from a neighbour
C9_Witness ==
    /\ pc = "returned"
    /\ mask = NoMask
    /\ \E n \in 1..nb_dir, p \in Voxels(shape), c \in Cells \ {Centre} :
          /\ curr_dir_eval(n)[p] # RZero
          /\ At(opposite_dir_eval(n), p, c) # RZero
          /\ RPos(weights[c][n])
          /\ mean_sf[n][p] # RZero

\* C10: in the masked path the effective weights are 0 at every cell whose
\* mask is false; they sum to 1 when one of them is non-zero, and no
\* division takes place when all are zero; the output at a valid voxel is
\* the average, over the valid cells alone, of the window weighted by the
\* kernel.
C10_MaskedWeights ==
    InVoxelLoop =>
        /\ \A c \in Cells : ~IsNaN(curr_w[c])
        /\ \A c \in Cells : win_mask[c] = 0 => curr_w[c] = RZero
        /\ (\E c \in Cells : curr_w[c] # RZero) => RSumCells(curr_w) = ROne
        /\ win_mask[Centre] = 1 =>
              out[LastVoxel] =
                  RDiv(RSumCells([c \in Cells |->
                           IF win_mask[c] = 1
                           THEN RMul(weights[c][dir_i], win_arr[c]) ELSE RZero]),
                       RSumCells([c \in Cells |->
                           IF win_mask[c] = 1 THEN weights[c][dir_i] ELSE RZero]))

\* C10 witness: a valid voxel was processed whose window holds a
\* masked-out voxel of the grid with a non-zero value and a non-zero
\* kernel weight
C10_Witness ==
    /\ InVoxelLoop
    /\ win_mask[Centre] = 1
    /\ \E c \in Cells \ {Centre} :
          /\ At([v \in Voxels(shape) |-> ROne], LastVoxel, c) = ROne
          /\ win_mask[c] = 0
          /\ win_arr[c] # RZero
          /\ RPos(weights[c][dir_i])
          /\ curr_w[c] = RZero

\* a window whose effective weights are all zero was processed
C10_AllZeroWindow ==
    InVoxelLoop /\ \A c \in Cells : curr_w[c] = RZero

\* C5: run with the three positional arguments only, on an existing input
\* with more streamlines than asked for, the script takes the downsample
\* branch and exits without error.
C5_PositionalOnlySucceeds ==
    (/\ args # Unset
     /\ args.point_wise_std = None
     /\ args.streamline_wise_std = None
     /\ args.gaussian = None
     /\ args.spline = None
     /\ ~args.keep_invalid_streamlines
     /\ ~args.overwrite
     /\ in_exists
     /\ args.nb_streamlines < nb_in_file) =>
        /\ script_pc # "error"
        /\ script_pc = "done" => branch = "downsample"

====
